---------------------------- MODULE Spec2Model ----------------------------
(***************************************************************************)
(* A model of services/excelService.ts: the spreadsheet ingestion          *)
(* (parseExcel, normalizeKeys), the reconciliation engine (processData)    *)
(* and the aggregation part of the report writer (generateExcelFile,       *)
(* createPivotTable).                                                      *)
(*                                                                         *)
(* JavaScript values are modelled as tagged records [t, v]: t is the       *)
(* typeof of the value and v its String(...) form.  Strings are TLA+       *)
(* strings; the string functions of the source (trim, toLowerCase, the     *)
(* two whitespace replaces, Date parsing) are given by their value on      *)
(* every string the model can build, and are the identity only on strings  *)
(* that the JavaScript function leaves unchanged.                          *)
(***************************************************************************)
EXTENDS Integers, Sequences, FiniteSets, TLC

VARIABLES
    \* normalizeKeys
    keysPc, rawRow, newObj,
    \* parseExcel
    parsePc, env, file, settleCalls, promise,
    \* processData
    procPc, lms1, lms2, master, lessonColumns, lmsMap, masterMap, finalRows,
    \* generateExcelFile
    reportPc, libLoaded, data, summaryData, pivots

keysVars == <<keysPc, rawRow, newObj>>
parseVars == <<parsePc, env, file, settleCalls, promise>>
procVars == <<procPc, lms1, lms2, master, lessonColumns, lmsMap, masterMap, finalRows>>
reportVars == <<reportPc, libLoaded, data, summaryData, pivots>>
vars == <<keysVars, parseVars, procVars, reportVars>>

---------------------------------------------------------------------------
(* Bounds of the model. *)

\* columns of the raw row given to normalizeKeys
MaxCols == 3
\* rows of the first sheet of the workbook given to parseExcel
MaxSheetRows == 2
\* rows of the first and of the second LMS sheet
MaxLms1 == 2
MaxLms2 == 1
\* rows of the master sheet
MaxMaster == 2
\* rows given to generateExcelFile
MaxData == 3

---------------------------------------------------------------------------
(* JavaScript values. *)

Str(s) == [t |-> "string", v |-> s]
Num(s) == [t |-> "number", v |-> s]
Undefined == [t |-> "undefined", v |-> ""]

\* String(val)
String(val) == IF val.t = "undefined" THEN "undefined" ELSE val.v

\* ToBoolean(val): undefined, "", 0 and NaN are falsy
Truthy(val) ==
    CASE val.t = "undefined" -> FALSE
      [] val.t = "string" -> val.v # ""
      [] val.t = "number" -> val.v \notin {"0", "NaN"}

\* obj[key], undefined when the object has no such property
Get(obj, key) == IF key \in DOMAIN obj THEN obj[key] ELSE Undefined

\* a || b
Or(a, b) == IF Truthy(a) THEN a ELSE b

\* The sequences over S of length at most n.
SeqUpTo(S, n) == UNION {[1..k -> S] : k \in 0..n}

---------------------------------------------------------------------------
(* String functions, by their value on the strings of the model. "<NBSP>"  *)
(* stands for the character U+00A0.                                        *)

\* String.prototype.trim
Trim(s) ==
    CASE s = " E-mail " -> "E-mail"
      [] s = " Notes" -> "Notes"
      [] s = "  " -> ""
      [] s = " A@X.com " -> "A@X.com"
      [] s = " a@x.com" -> "a@x.com"
      [] s = "Completed " -> "Completed"
      [] s = " " -> ""
      [] OTHER -> s

\* String.prototype.toLowerCase on the strings it changes
LowerCased ==
    ("Email address" :> "email address")
    @@ ("Username" :> "username")
    @@ ("Email" :> "email")
    @@ ("EMAIL" :> "email")
    @@ ("User Email" :> "user email")
    @@ ("E-mail" :> "e-mail")
    @@ ("User ID" :> "user id")
    @@ ("Employee ID" :> "employee id")
    @@ ("EmployeeID" :> "employeeid")
    @@ ("UserID" :> "userid")
    @@ ("User/EmployeeID" :> "user/employeeid")
    @@ ("ID" :> "id")
    @@ ("Emp ID" :> "emp id")
    @@ ("Display Name" :> "display name")
    @@ ("Pharmacist Name" :> "pharmacist name")
    @@ ("Pharmacist" :> "pharmacist")
    @@ ("Full Name" :> "full name")
    @@ ("Name" :> "name")
    @@ ("Phone" :> "phone")
    @@ ("Mobile" :> "mobile")
    @@ ("Phone Number" :> "phone number")
    @@ ("Whatsapp" :> "whatsapp")
    @@ ("Contact No" :> "contact no")
    @@ ("Pharmacy ID" :> "pharmacy id")
    @@ ("Pharmacy #" :> "pharmacy #")
    @@ ("Pharmacy Code" :> "pharmacy code")
    @@ ("Supervisor" :> "supervisor")
    @@ ("Manager" :> "manager")
    @@ ("Username (Email)" :> "username (email)")
    @@ ("Supervisor Name" :> "supervisor name")
    @@ ("Notes" :> "notes")
    @@ ("A@X.com" :> "a@x.com")
    @@ ("Completed" :> "completed")
    @@ ("Not Completed" :> "not completed")
    @@ ("Completed (achieved pass grade)" :> "completed (achieved pass grade)")
    @@ ("In Progress" :> "in progress")
    @@ ("UNDEFINED" :> "undefined")
    @@ ("Riyadh" :> "riyadh")
    @@ (" E-mail " :> " e-mail ")
    @@ (" Notes" :> " notes")

\* String.prototype.toLowerCase
ToLowerCase(s) == IF s \in DOMAIN LowerCased THEN LowerCased[s] ELSE s

\* .replace(/[\u00A0\u1680...\uFEFF]/g, ' ')
ReplaceUnicodeSpaces(s) ==
    CASE s = "Not<NBSP>Completed" -> "Not Completed"
      [] OTHER -> s

\* .replace(/\s+/g, ' ')
CollapseWhitespace(s) ==
    CASE s = "  " -> " "
      [] s = "Not  Completed" -> "Not Completed"
      [] OTHER -> s

---------------------------------------------------------------------------
(* The column aliases and the text helpers. *)

COLUMN_ALIASES ==
    [k \in {"Email address", "Username", "Email", "User Email", "E-mail"}
        |-> "Username (Email)"]
    @@ [k \in {"User ID", "Employee ID", "EmployeeID", "UserID",
               "User/EmployeeID", "ID", "Emp ID"} |-> "User/Employee ID"]
    @@ [k \in {"Display Name", "Pharmacist Name", "Pharmacist", "Full Name",
               "Name"} |-> "Display Name (Pharmacist name)"]
    @@ [k \in {"Phone", "Mobile", "Phone Number", "Whatsapp", "Contact No"}
        |-> "Phone number (Whatsapp)"]
    @@ [k \in {"Pharmacy ID", "Pharmacy #", "Pharmacy Code"} |-> "Pharmacy No."]
    @@ [k \in {"Supervisor", "Manager"} |-> "Supervisor Name"]

\* COLUMN_ALIASES is an object literal: COLUMN_ALIASES[name] also finds what
\* it inherits from Object.prototype. Some of these names, with String(...)
\* of what is found (all of it truthy).
ObjectPrototype ==
    ("constructor" :> "function Object() { [native code] }")
    @@ ("toString" :> "function toString() { [native code] }")
    @@ ("valueOf" :> "function valueOf() { [native code] }")
    @@ ("hasOwnProperty" :> "function hasOwnProperty() { [native code] }")
    @@ ("__proto__" :> "[object Object]")

\* Object.keys(COLUMN_ALIASES), in the order of the literal
AliasKeys ==
    <<"Email address", "Username", "Email", "User Email", "E-mail",
      "User ID", "Employee ID", "EmployeeID", "UserID", "User/EmployeeID",
      "ID", "Emp ID",
      "Display Name", "Pharmacist Name", "Pharmacist", "Full Name", "Name",
      "Phone", "Mobile", "Phone Number", "Whatsapp", "Contact No",
      "Pharmacy ID", "Pharmacy #", "Pharmacy Code",
      "Supervisor", "Manager">>

cleanText(val) ==
    IF val.t = "undefined" THEN ""
    ELSE ToLowerCase(Trim(CollapseWhitespace(ReplaceUnicodeSpaces(String(val)))))

\* Object.keys(COLUMN_ALIASES).find(k => k.toLowerCase() === lowerKey):
\* the index of the first match, 0 when there is none
aliasMatch(lowerKey) ==
    LET hits == {i \in DOMAIN AliasKeys : ToLowerCase(AliasKeys[i]) = lowerKey}
    IN IF hits = {} THEN 0 ELSE CHOOSE i \in hits : \A j \in hits : i <= j

\* resolveKey without the case-insensitive search
resolveKeyExactOnly(key) ==
    LET cleanKey == Trim(key)
    IN IF cleanKey \in DOMAIN COLUMN_ALIASES THEN COLUMN_ALIASES[cleanKey]
       ELSE IF cleanKey \in DOMAIN ObjectPrototype THEN ObjectPrototype[cleanKey]
       ELSE cleanKey

\* the key under which normalizeKeys stores a column
resolveKey(key) ==
    LET cleanKey == Trim(key)
    IN IF cleanKey \in DOMAIN COLUMN_ALIASES THEN COLUMN_ALIASES[cleanKey]
       ELSE IF cleanKey \in DOMAIN ObjectPrototype THEN ObjectPrototype[cleanKey]
       ELSE LET m == aliasMatch(ToLowerCase(cleanKey))
            IN IF m # 0 THEN COLUMN_ALIASES[AliasKeys[m]] ELSE cleanKey

\* One round of the forEach of normalizeKeys: acc is newObj, col is <<key, obj[key]>>.
normalizeStep(acc, col) ==
    LET cleanKey == resolveKey(col[1])
        val == col[2]
    IN IF cleanKey = "" THEN acc
       ELSE IF Get(acc, cleanKey) = Undefined
               \/ (Get(acc, cleanKey) = Str("") /\ val # Str("") /\ val # Undefined)
            THEN (cleanKey :> val) @@ acc
            ELSE acc

RECURSIVE normalizeFrom(_, _, _)
normalizeFrom(obj, i, acc) ==
    IF i > Len(obj) THEN acc
    ELSE normalizeFrom(obj, i + 1, normalizeStep(acc, obj[i]))

\* obj is the row as the sequence of its <<key, value>> columns, in the
\* order of Object.keys(obj); the result is a function from key to value.
normalizeKeys(obj) == normalizeFrom(obj, 1, <<>>)

---------------------------------------------------------------------------
(* normalizeKeys on one raw row. *)

RawKeys ==
    {"Email", "EMAIL", " E-mail ", "Username (Email)", "Notes", " Notes",
     "  ", "manager", "constructor"}

RawValues == {Str(""), Str("a@x.com"), Str("b@x.com")}

\* a raw row: columns with distinct keys
RawRows(n) ==
    {r \in SeqUpTo(RawKeys \X RawValues, n) :
        \A i, j \in DOMAIN r : i # j => r[i][1] # r[j][1]}

KeysIdle == keysPc = "idle" /\ rawRow = <<>> /\ newObj = <<>>
ParseIdle ==
    /\ parsePc = "idle" /\ env = <<>> /\ file = <<>>
    /\ settleCalls = 0 /\ promise = [state |-> "pending", value |-> <<>>]
ProcIdle ==
    /\ procPc = "idle" /\ lms1 = <<>> /\ lms2 = <<>> /\ master = <<>>
    /\ lessonColumns = {} /\ lmsMap = <<>> /\ masterMap = <<>> /\ finalRows = <<>>
ReportIdle ==
    /\ reportPc = "idle" /\ libLoaded = FALSE /\ data = <<>>
    /\ summaryData = <<>> /\ pivots = <<>>

InitKeys ==
    /\ keysPc = "call"
    /\ rawRow \in RawRows(MaxCols)
    /\ newObj = <<>>
    /\ ParseIdle /\ ProcIdle /\ ReportIdle

NormalizeKeys ==
    /\ keysPc = "call"
    /\ newObj' = normalizeKeys(rawRow)
    /\ keysPc' = "done"
    /\ UNCHANGED <<rawRow, parseVars, procVars, reportVars>>

NextKeys == NormalizeKeys

SpecKeys == InitKeys /\ [][NextKeys]_vars

---------------------------------------------------------------------------
(* parseExcel: the promise, the FileReader events and getXLSX. *)

\* env.window: what window.XLSX is ("absent": no window or no window.XLSX,
\* "noUtils": an object without utils, "ok": the library);
\* env.pkg: the shape of the imported namespace object.
Envs == [window : {"absent", "noUtils", "ok"},
         pkg : {"none", "utils", "default", "XLSX"}]

\* the library object getXLSX returns, "null" when it finds none
getXLSX(e) ==
    IF e.window = "ok" THEN "window.XLSX"
    ELSE CASE e.pkg = "utils" -> "pkg"
           [] e.pkg = "default" -> "pkg.default"
           [] e.pkg = "XLSX" -> "pkg.XLSX"
           [] OTHER -> "null"

\* rows a sheet may hold
SheetRowPool ==
    {<<>>,
     << <<"EMAIL", Str("a@x.com")>>, <<" Notes", Str("n")>> >>,
     << <<"Email", Str("")>>, <<"Username (Email)", Str("b@x.com")>> >>}

SecondSheetRows == << << <<"Email", Str("second@x.com")>> >> >>

\* file.readOk: the reader fires load (TRUE) or error (FALSE);
\* file.corrupt: lib.read throws; file.SheetNames, file.Sheets: the workbook
\* lib.read returns, file.Sheets[name] being the rows sheet_to_json gives.
Files ==
    {[readOk |-> ok, corrupt |-> c, SheetNames |-> names, Sheets |-> sheets] :
        ok \in BOOLEAN, c \in BOOLEAN,
        names \in {<<>>, <<"Sheet1">>, <<"Sheet1", "Sheet2">>},
        sheets \in {<<>>} \cup
            {("Sheet1" :> rows) @@ ("Sheet2" :> SecondSheetRows) :
                rows \in SeqUpTo(SheetRowPool, MaxSheetRows)}
            \cup {("Sheet2" :> SecondSheetRows)}}

\* resolve(value) and reject(error) of the promise: the first call settles it
settle(p, state, value) ==
    IF p.state = "pending" THEN [state |-> state, value |-> value] ELSE p

\* json.map(row => normalizeKeys(row))
mapNormalizeKeys(json) == [i \in DOMAIN json |-> normalizeKeys(json[i])]

\* onload that takes a workbook without sheets for an empty sheet
onloadNoSheetsIsEmpty(e, f) ==
    IF getXLSX(e) = "null"
    THEN <<"reject", "Excel library (XLSX) not found.">>
    ELSE IF f.corrupt
    THEN <<"reject", "lib.read threw">>
    ELSE IF Len(f.SheetNames) = 0
    THEN <<"resolve", <<>> >>
    ELSE IF f.SheetNames[1] \notin DOMAIN f.Sheets
    THEN <<"reject", "Sheet could not be loaded.">>
    ELSE <<"resolve", mapNormalizeKeys(f.Sheets[f.SheetNames[1]])>>

\* What reader.onload does with the promise: <<"resolve", rows>> or
\* <<"reject", error>>; every throw of the try block reaches the catch.
onload(e, f) ==
    LET lib == getXLSX(e)
    IN IF lib = "null"
       THEN <<"reject", "Excel library (XLSX) not found.">>
       ELSE IF f.corrupt
       THEN <<"reject", "lib.read threw">>
       ELSE IF Len(f.SheetNames) = 0
       THEN <<"reject", "The uploaded file appears to be empty or invalid.">>
       ELSE IF f.SheetNames[1] \notin DOMAIN f.Sheets
       THEN <<"reject", "Sheet could not be loaded.">>
       ELSE <<"resolve", mapNormalizeKeys(f.Sheets[f.SheetNames[1]])>>

InitParse ==
    /\ parsePc = "call"
    /\ env \in Envs
    /\ file \in Files
    /\ settleCalls = 0
    /\ promise = [state |-> "pending", value |-> <<>>]
    /\ KeysIdle /\ ProcIdle /\ ReportIdle

\* parseExcel(file): the executor creates the reader and starts the read
ParseExcel ==
    /\ parsePc = "call"
    /\ parsePc' = "reading"
    /\ UNCHANGED <<env, file, settleCalls, promise, keysVars, procVars, reportVars>>

ReaderOnload ==
    /\ parsePc = "reading"
    /\ file.readOk
    /\ LET r == onload(env, file)
       IN promise' = settle(promise,
                            IF r[1] = "resolve" THEN "fulfilled" ELSE "rejected",
                            r[2])
    /\ settleCalls' = settleCalls + 1
    /\ parsePc' = "done"
    /\ UNCHANGED <<env, file, keysVars, procVars, reportVars>>

ReaderOnerror ==
    /\ parsePc = "reading"
    /\ ~file.readOk
    /\ promise' = settle(promise, "rejected", "reader error")
    /\ settleCalls' = settleCalls + 1
    /\ parsePc' = "done"
    /\ UNCHANGED <<env, file, keysVars, procVars, reportVars>>

NextParse == ParseExcel \/ ReaderOnload \/ ReaderOnerror

SpecParse == InitParse /\ [][NextParse]_vars

---------------------------------------------------------------------------
(* processData. A row is a function from its column names to values; a     *)
(* completion rate is the fraction [num, den] that the source computes as  *)
(* completedCount / lessonColumns.size (0 is 0/1).                         *)

TARGET_VALUE_COMPLETED == "completed (achieved pass grade)"
TARGET_VALUE_COMPLETED_SIMPLE == "completed"
TARGET_VALUE_NOT_COMPLETED == "not completed"

\* a > b and a === b on rates
rateGt(a, b) == a.num * b.den > b.num * a.den
rateEq(a, b) == a.num * b.den = b.num * a.den

\* [...lms1, ...lms2]
combinedLMS(l1, l2) == l1 \o l2

\* step 2: the columns in which some row holds one of the three phrases
inferLessonColumns(combined) ==
    LET allKeys == UNION {DOMAIN combined[i] : i \in DOMAIN combined}
    IN {key \in allKeys :
          \E i \in DOMAIN combined :
             cleanText(Get(combined[i], key)) \in
                {TARGET_VALUE_COMPLETED, TARGET_VALUE_NOT_COMPLETED,
                 TARGET_VALUE_COMPLETED_SIMPLE}}

\* calculateRate that also counts "not completed" as completed
calculateRateCountsNotCompleted(row, lessonCols) ==
    IF lessonCols = {} THEN [num |-> 0, den |-> 1]
    ELSE [num |-> Cardinality({colKey \in lessonCols :
                      cleanText(Get(row, colKey)) \in
                         {TARGET_VALUE_COMPLETED, TARGET_VALUE_COMPLETED_SIMPLE,
                          TARGET_VALUE_NOT_COMPLETED}}),
          den |-> Cardinality(lessonCols)]

calculateRate(row, lessonCols) ==
    IF lessonCols = {} THEN [num |-> 0, den |-> 1]
    ELSE [num |-> Cardinality({colKey \in lessonCols :
                      cleanText(Get(row, colKey)) \in
                         {TARGET_VALUE_COMPLETED, TARGET_VALUE_COMPLETED_SIMPLE}}),
          den |-> Cardinality(lessonCols)]

\* new Date(v).getTime(), in milliseconds; nan is TRUE for an invalid date
dateGetTime(val) ==
    CASE val = Str("1970-01-01") -> [nan |-> FALSE, n |-> 0]
      [] val = Str("1970-01-02") -> [nan |-> FALSE, n |-> 86400000]
      [] val = Str("1970-01-03") -> [nan |-> FALSE, n |-> 172800000]
      [] val = Num("45000") -> [nan |-> FALSE, n |-> 45000]
      [] OTHER -> [nan |-> TRUE, n |-> 0]

\* Number(v)
toNumber(val) ==
    CASE val = Str("") -> [nan |-> FALSE, n |-> 0]
      [] val = Num("45000") -> [nan |-> FALSE, n |-> 45000]
      [] OTHER -> [nan |-> TRUE, n |-> 0]

\* new Date(v).getTime() || Number(v) || 0
resolveDate(val) ==
    LET a == dateGetTime(val)
        b == toNumber(val)
    IN IF ~a.nan /\ a.n # 0 THEN a.n
       ELSE IF ~b.nan /\ b.n # 0 THEN b.n
       ELSE 0

\* emailKeyOf without the test for the literal "undefined"
emailKeyOfKeepsUndefined(row) ==
    LET rawEmail == Get(row, "Username (Email)")
    IN IF ~Truthy(rawEmail) \/ rawEmail.t # "string" THEN ""
       ELSE cleanText(rawEmail)

\* The identity key of an LMS row as the forEach of step 3 derives it;
\* "" stands for the early returns (the row is skipped).
emailKeyOf(row) ==
    LET rawEmail == Get(row, "Username (Email)")
    IN IF ~Truthy(rawEmail) \/ rawEmail.t # "string" THEN ""
       ELSE LET emailKey == cleanText(rawEmail)
            IN IF emailKey = "" \/ emailKey = "undefined" THEN "" ELSE emailKey

\* replaces with the rate comparison reversed
replacesLowerRate(row, rate, existing) ==
    IF rateGt(existing.rate, rate) THEN TRUE
    ELSE IF rateEq(rate, existing.rate)
         THEN resolveDate(Get(row, "Date")) > resolveDate(Get(existing.row, "Date"))
         ELSE FALSE

\* replaces with dateA >= dateB on equal rates
replacesOnEqualDate(row, rate, existing) ==
    IF rateGt(rate, existing.rate) THEN TRUE
    ELSE IF rateEq(rate, existing.rate)
         THEN resolveDate(Get(row, "Date")) >= resolveDate(Get(existing.row, "Date"))
         ELSE FALSE

\* whether the stored entry is replaced by the row with this rate
replaces(row, rate, existing) ==
    IF rateGt(rate, existing.rate) THEN TRUE
    ELSE IF rateEq(rate, existing.rate)
         THEN resolveDate(Get(row, "Date")) > resolveDate(Get(existing.row, "Date"))
         ELSE FALSE

\* One round of the forEach of step 3. The Map is the sequence of its
\* entries in insertion order; set() on a present key keeps its place.
dedupStep(map, row, lessonCols) ==
    LET emailKey == emailKeyOf(row)
        rate == calculateRate(row, lessonCols)
        at == {i \in DOMAIN map : map[i].key = emailKey}
        entry == [key |-> emailKey, row |-> row, rate |-> rate]
    IN IF emailKey = "" THEN map
       ELSE IF at # {}
            THEN LET i == CHOOSE i \in at : TRUE
                 IN IF replaces(row, rate, map[i])
                    THEN [map EXCEPT ![i] = entry]
                    ELSE map
            ELSE Append(map, entry)

RECURSIVE dedupFrom(_, _, _, _)
dedupFrom(combined, i, map, lessonCols) ==
    IF i > Len(combined) THEN map
    ELSE dedupFrom(combined, i + 1, dedupStep(map, combined[i], lessonCols), lessonCols)

buildLmsMap(combined, lessonCols) == dedupFrom(combined, 1, <<>>, lessonCols)

\* step 4: a later master row with the same key overwrites an earlier one
RECURSIVE masterFrom(_, _, _)
masterFrom(rows, i, map) ==
    IF i > Len(rows) THEN map
    ELSE LET rawEmail == Get(rows[i], "Username (Email)")
         IN masterFrom(rows, i + 1,
                IF Truthy(rawEmail)
                THEN (cleanText(rawEmail) :> rows[i]) @@ map
                ELSE map)

buildMasterMap(rows) == masterFrom(rows, 1, <<>>)

\* mergeField with the LMS value first
mergeFieldLmsFirst(masterRow, lmsRow, f) ==
    Or(Or(Get(lmsRow, f), Get(masterRow, f)), Str(""))

\* masterRow?.[f] || lmsRow[f] || ''; masterRow is <<>> when there is none
mergeField(masterRow, lmsRow, f) ==
    Or(Or(Get(masterRow, f), Get(lmsRow, f)), Str(""))

\* emitGuard with && for ||
emitGuardAll(employeeId, email, displayName) ==
    Truthy(employeeId) /\ Truthy(email) /\ Truthy(displayName)

\* if (employeeId || email || displayName)
emitGuard(employeeId, email, displayName) ==
    Truthy(employeeId) \/ Truthy(email) \/ Truthy(displayName)

OutputFields ==
    {"District", "City", "Supervisor Name", "Pharmacy No.", "User/Employee ID",
     "Username (Email)", "Display Name (Pharmacist name)",
     "Phone number (Whatsapp)", "SCFHS"}

\* the row pushed for one entry of lmsMap
finalRow(lmsEntry, masterRow) ==
    [f \in OutputFields |-> String(mergeField(masterRow, lmsEntry.row, f))]
    @@ ("Completion Rate" :> lmsEntry.rate)

RECURSIVE finalFrom(_, _, _, _)
finalFrom(map, mMap, i, rows) ==
    IF i > Len(map) THEN rows
    ELSE LET masterRow == IF map[i].key \in DOMAIN mMap THEN mMap[map[i].key] ELSE <<>>
             employeeId == mergeField(masterRow, map[i].row, "User/Employee ID")
             displayName == mergeField(masterRow, map[i].row, "Display Name (Pharmacist name)")
             email == mergeField(masterRow, map[i].row, "Username (Email)")
         IN finalFrom(map, mMap, i + 1,
                IF emitGuard(employeeId, email, displayName)
                THEN Append(rows, finalRow(map[i], masterRow))
                ELSE rows)

generateFinalRows(map, mMap) == finalFrom(map, mMap, 1, <<>>)

\* a row with the given columns; a column whose value is undefined is absent
Row(cols) ==
    LET present == {i \in DOMAIN cols : cols[i][2] # Undefined}
    IN [k \in {cols[i][1] : i \in present} |->
           LET i == CHOOSE i \in present : cols[i][1] = k IN cols[i][2]]

LmsRow(email, date, l1, l2, district, id, name) ==
    Row(<< <<"Username (Email)", email>>, <<"Date", date>>,
           <<"Lesson 1", l1>>, <<"Lesson 2", l2>>, <<"District", district>>,
           <<"User/Employee ID", id>>,
           <<"Display Name (Pharmacist name)", name>>,
           <<"City", Str("")>>, <<"Notes", Str("In Progress")>> >>)

MasterRow(email, district, id, name, rate) ==
    Row(<< <<"Username (Email)", email>>, <<"District", district>>,
           <<"User/Employee ID", id>>,
           <<"Display Name (Pharmacist name)", name>>,
           <<"City", Str("Jeddah")>>, <<"Completion Rate", rate>> >>)

\* rows of the first LMS sheet: they differ in identity, date and statuses
LmsPool ==
    {LmsRow(Str("a@x.com"), Str("1970-01-02"), Str("Completed"), Str("Not Completed"),
            Str("Riyadh"), Num("7"), Str("Ann")),
     LmsRow(Str(" A@X.com "), Str("1970-01-03"), Str("Completed (achieved pass grade)"),
            Str("Not<NBSP>Completed"), Str("Jeddah"), Num("0"), Str("")),
     LmsRow(Str("A@X.com"), Str(""), Str("Completed"), Str("Completed "),
            Str(""), Num("8"), Str("")),
     LmsRow(Str("a@x.com"), Str("N/A"), Str("In Progress"), Str(""),
            Str(""), Undefined, Str("")),
     LmsRow(Str("A@X.com"), Str("1970-01-01"), Str("In Progress"), Undefined,
            Str("Jeddah"), Undefined, Str("")),
     LmsRow(Str("b@x.com"), Num("45000"), Str("Not  Completed"), Str("Completed"),
            Str(""), Undefined, Str("Bob")),
     LmsRow(Str("UNDEFINED"), Str(""), Str("Completed"), Str(""),
            Str(""), Undefined, Str("")),
     LmsRow(Str("  "), Str("1970-01-02"), Str("Completed"), Str("Completed"),
            Str("Riyadh"), Num("9"), Str("Nokey"))}

\* rows of the second LMS sheet
Lms2Pool ==
    {LmsRow(Str("a@x.com"), Str("1970-01-03"), Str("Not Completed"), Str("completed"),
            Str(""), Undefined, Str("Zed")),
     LmsRow(Num("123"), Str(""), Str("Completed"), Str("Completed"),
            Str(""), Num("123"), Str(""))}

MasterPool ==
    {MasterRow(Str("A@X.com"), Str("Riyadh"), Num("1"), Str("Ann M"), Num("0.3")),
     MasterRow(Str(" a@x.com"), Str(""), Num("0"), Str(""), Undefined)}

InitDedup ==
    /\ lms1 \in SeqUpTo(LmsPool, MaxLms1)
    /\ lms2 \in SeqUpTo(Lms2Pool, MaxLms2)
    /\ master \in SeqUpTo(MasterPool, MaxMaster)

InitProcess ==
    /\ procPc = "call"
    /\ InitDedup
    /\ lessonColumns = {} /\ lmsMap = <<>> /\ masterMap = <<>> /\ finalRows = <<>>
    /\ KeysIdle /\ ParseIdle /\ ReportIdle

ProcessData ==
    /\ procPc = "call"
    /\ lessonColumns' = inferLessonColumns(combinedLMS(lms1, lms2))
    /\ lmsMap' = buildLmsMap(combinedLMS(lms1, lms2), lessonColumns')
    /\ masterMap' = buildMasterMap(master)
    /\ finalRows' = generateFinalRows(lmsMap', masterMap')
    /\ procPc' = "done"
    /\ UNCHANGED <<lms1, lms2, master, keysVars, parseVars, reportVars>>

NextProcess == ProcessData

SpecProcess == InitProcess /\ [][NextProcess]_vars

---------------------------------------------------------------------------
(* generateExcelFile: the summary of the dashboard sheet and the pivot     *)
(* tables. Cell styling and the workbook calls are left to the library.    *)

\* isInProgress with <= 0.999
isInProgressInclusive(rate) == rate.num > 0 /\ rate.num * 1000 <= 999 * rate.den

\* d["Completion Rate"] >= 0.999, > 0 && < 0.999, === 0
isCompleted(rate) == rate.num * 1000 >= 999 * rate.den

isInProgress(rate) == rate.num > 0 /\ rate.num * 1000 < 999 * rate.den

isNotStarted(rate) == rate.num = 0

\* total > 0 ? n / total : 0
ratio(n, total) ==
    IF total > 0 THEN [num |-> n, den |-> total] ELSE [num |-> 0, den |-> 1]

\* the counts and percentages of the summary table of the dashboard sheet
summaryOf(rows) ==
    LET total == Len(rows)
        completed == Cardinality({i \in DOMAIN rows : isCompleted(rows[i]["Completion Rate"])})
        inProgress == Cardinality({i \in DOMAIN rows : isInProgress(rows[i]["Completion Rate"])})
        notStarted == Cardinality({i \in DOMAIN rows : isNotStarted(rows[i]["Completion Rate"])})
    IN << <<"Number Of Student", total, [num |-> 1, den |-> 1]>>,
          <<"Number Of Student Who Completed", completed, ratio(completed, total)>>,
          <<"Number OF Student Who In Progress", inProgress, ratio(inProgress, total)>>,
          <<"Number Of Students Who Did Not Started", notStarted, ratio(notStarted, total)>> >>

\* The number a property name is an array index for, -1 for any other name:
\* an object lists its array-index properties first, in ascending order.
arrayIndex(key) ==
    CASE key = "5" -> 5
      [] key = "10" -> 10
      [] OTHER -> -1

\* String(row[groupByField] || '(Blank)'); the values of the grouping fields
\* are taken not to be names of Object.prototype properties
groupKey(row, groupByField) ==
    IF row[groupByField] # "" THEN row[groupByField] ELSE "(Blank)"

\* One round of data.forEach in createPivotTable; groups is the sequence of
\* the object's properties in the order of their creation.
groupStep(groups, row, groupByField) ==
    LET key == groupKey(row, groupByField)
        rate == row["Completion Rate"]
        at == {i \in DOMAIN groups : groups[i].key = key}
        old == IF at = {}
               THEN [key |-> key, total |-> 0, comp |-> 0, prog |-> 0, not |-> 0]
               ELSE groups[CHOOSE i \in at : TRUE]
        new == [key |-> key,
                total |-> old.total + 1,
                comp |-> old.comp + (IF isCompleted(rate) THEN 1 ELSE 0),
                prog |-> old.prog + (IF ~isCompleted(rate) /\ isInProgress(rate)
                                     THEN 1 ELSE 0),
                not |-> old.not + (IF ~isCompleted(rate) /\ ~isInProgress(rate)
                                   THEN 1 ELSE 0)]
    IN IF at = {} THEN Append(groups, new)
       ELSE [groups EXCEPT ![CHOOSE i \in at : TRUE] = new]

RECURSIVE groupFrom(_, _, _, _)
groupFrom(rows, i, groups, groupByField) ==
    IF i > Len(rows) THEN groups
    ELSE groupFrom(rows, i + 1, groupStep(groups, rows[i], groupByField), groupByField)

\* the array-index properties among groups, in ascending order of the index
RECURSIVE indexEntries(_, _)
indexEntries(groups, above) ==
    LET left == {i \in DOMAIN groups : arrayIndex(groups[i].key) > above}
    IN IF left = {} THEN <<>>
       ELSE LET i == CHOOSE i \in left :
                        \A j \in left : arrayIndex(groups[i].key) <= arrayIndex(groups[j].key)
            IN <<groups[i]>> \o indexEntries(groups, arrayIndex(groups[i].key))

\* Object.entries(groups): array-index names in ascending order, then the
\* other names in the order of their creation
objectEntries(groups) ==
    indexEntries(groups, -1)
        \o SelectSeq(groups, LAMBDA g : arrayIndex(g.key) = -1)

\* entries.sort((a, b) => b[1].total - a[1].total), a stable sort
RECURSIVE insertByTotal(_, _)
insertByTotal(sorted, g) ==
    IF sorted = <<>> THEN <<g>>
    ELSE IF sorted[Len(sorted)].total >= g.total THEN Append(sorted, g)
    ELSE Append(insertByTotal(SubSeq(sorted, 1, Len(sorted) - 1), g),
                sorted[Len(sorted)])

RECURSIVE sortFrom(_, _, _)
sortFrom(entries, i, sorted) ==
    IF i > Len(entries) THEN sorted
    ELSE sortFrom(entries, i + 1, insertByTotal(sorted, entries[i]))

sortByTotalDesc(entries) == sortFrom(entries, 1, <<>>)

\* the data rows of the table createPivotTable returns
createPivotTable(rows, groupByField) ==
    LET sorted == sortByTotalDesc(objectEntries(groupFrom(rows, 1, <<>>, groupByField)))
    IN [i \in DOMAIN sorted |->
           [key |-> sorted[i].key, total |-> sorted[i].total,
            comp |-> sorted[i].comp, prog |-> sorted[i].prog, not |-> sorted[i].not,
            pct |-> IF sorted[i].total # 0
                    THEN [num |-> sorted[i].comp, den |-> sorted[i].total]
                    ELSE [num |-> 0, den |-> 1]]]

PivotFields == {"District", "Supervisor Name", "City"}

ReportRow(district, rate) ==
    [f \in OutputFields |->
        CASE f = "District" -> district
          [] f = "Supervisor Name" -> (IF district \in {"Riyadh", "5"} THEN "Omar" ELSE "")
          [] f = "City" -> (IF district = "Riyadh" THEN "Riyadh" ELSE "10")
          [] OTHER -> ""]
    @@ ("Completion Rate" :> rate)

ReportRowPool ==
    {ReportRow(d, r) :
        d \in {"Riyadh", "5", "10", ""},
        r \in {[num |-> 0, den |-> 1], [num |-> 1, den |-> 2],
               [num |-> 999, den |-> 1000], [num |-> 1, den |-> 1]}}

InitReport ==
    /\ reportPc = "call"
    /\ libLoaded \in BOOLEAN
    /\ data \in SeqUpTo(ReportRowPool, MaxData)
    /\ summaryData = <<>> /\ pivots = <<>>
    /\ KeysIdle /\ ParseIdle /\ ProcIdle

\* lib is null: alert(...) and return
GenerateNoLibrary ==
    /\ reportPc = "call"
    /\ ~libLoaded
    /\ reportPc' = "alerted"
    /\ UNCHANGED <<libLoaded, data, summaryData, pivots, keysVars, parseVars, procVars>>

GenerateExcelFile ==
    /\ reportPc = "call"
    /\ libLoaded
    /\ summaryData' = summaryOf(data)
    /\ pivots' = [f \in PivotFields |-> createPivotTable(data, f)]
    /\ reportPc' = "written"
    /\ UNCHANGED <<libLoaded, data, keysVars, parseVars, procVars>>

NextReport == GenerateNoLibrary \/ GenerateExcelFile

SpecReport == InitReport /\ [][NextReport]_vars

---------------------------------------------------------------------------
(* Claims about generateExcelFile. *)

\* the rows of data whose value of field f falls in group key
groupRows(f, key) ==
    {i \in DOMAIN data : (IF data[i][f] = "" THEN "(Blank)" ELSE data[i][f]) = key}

\* the first row of data that falls in the group
firstSeen(f, key) == CHOOSE i \in groupRows(f, key) : \A j \in groupRows(f, key) : i <= j

\* C7: in every pivot table the groups are listed in descending order of
\* their total, groups of equal total in the order in which their value was
\* first met in the rows.
C7_PivotOrder ==
    reportPc = "written" =>
        \A f \in PivotFields : \A i \in DOMAIN pivots[f] : \A j \in DOMAIN pivots[f] :
            i < j =>
                \/ pivots[f][i].total > pivots[f][j].total
                \/ /\ pivots[f][i].total = pivots[f][j].total
                   /\ firstSeen(f, pivots[f][i].key) < firstSeen(f, pivots[f][j].key)

\* the rows whose rate is at least 0.999, strictly between 0 and 0.999, and 0
completedRows(S) == {i \in S : data[i]["Completion Rate"].num * 1000
                                  >= 999 * data[i]["Completion Rate"].den}
notStartedRows(S) == {i \in S : data[i]["Completion Rate"].num = 0}
inProgressRows(S) == (S \ completedRows(S)) \ notStartedRows(S)

\* C8: the summary puts every row in exactly one of completed (rate >= 0.999),
\* in-progress (0 < rate < 0.999) and not-started (rate = 0), so the three
\* counts add up to the total, in the dashboard summary and in every pivot
\* group; the completed percentage is completed/total, 0 for no rows.
C8_SummaryPartition ==
    reportPc = "written" =>
        /\ summaryData[1][2] = Len(data)
        /\ summaryData[2][2] = Cardinality(completedRows(DOMAIN data))
        /\ summaryData[3][2] = Cardinality(inProgressRows(DOMAIN data))
        /\ summaryData[4][2] = Cardinality(notStartedRows(DOMAIN data))
        /\ summaryData[2][2] + summaryData[3][2] + summaryData[4][2] = Len(data)
        /\ IF Len(data) = 0 THEN summaryData[2][3].num = 0
           ELSE summaryData[2][3].num * Len(data)
                   = summaryData[2][2] * summaryData[2][3].den
        /\ \A f \in PivotFields :
              /\ \A g, h \in DOMAIN pivots[f] :
                    g # h => pivots[f][g].key # pivots[f][h].key
              /\ \A g \in DOMAIN pivots[f] :
                    LET grp == pivots[f][g]
                        S == groupRows(f, grp.key)
                    IN /\ grp.total = Cardinality(S)
                       /\ grp.comp = Cardinality(completedRows(S))
                       /\ grp.prog = Cardinality(inProgressRows(S))
                       /\ grp.not = Cardinality(notStartedRows(S))
                       /\ grp.comp + grp.prog + grp.not = grp.total
                       /\ grp.pct.num * grp.total = grp.comp * grp.pct.den

\* rows with rates 1 and 0.999 (both completed) and 0.5 in two districts
C8_Witness ==
    /\ reportPc = "written"
    /\ Len(data) = 3
    /\ {data[i]["Completion Rate"] : i \in DOMAIN data}
          = {[num |-> 1, den |-> 1], [num |-> 999, den |-> 1000], [num |-> 1, den |-> 2]}
    /\ summaryData[2][2] = 2 /\ summaryData[3][2] = 1 /\ summaryData[4][2] = 0
    /\ Len(pivots["District"]) = 2

---------------------------------------------------------------------------
(* Claims about normalizeKeys and parseExcel. *)

\* the alias entries equal to s when case is ignored
aliasesOf(s) == {a \in DOMAIN COLUMN_ALIASES : ToLowerCase(a) = ToLowerCase(s)}

canonicalByLowerCase ==
    [l \in {ToLowerCase(a) : a \in DOMAIN COLUMN_ALIASES} |->
        COLUMN_ALIASES[CHOOSE a \in DOMAIN COLUMN_ALIASES : ToLowerCase(a) = l]]

storedName(key) ==
    IF ToLowerCase(Trim(key)) \in DOMAIN canonicalByLowerCase
    THEN canonicalByLowerCase[ToLowerCase(Trim(key))]
    ELSE Trim(key)

\* the columns of the row whose trimmed key Object.prototype does not hold
plainColumns == {i \in DOMAIN rawRow : Trim(rawRow[i][1]) \notin DOMAIN ObjectPrototype}

parseFailure ==
    \/ env.window # "ok" /\ env.pkg = "none"
    \/ Len(file.SheetNames) = 0
    \/ Len(file.SheetNames) > 0 /\ file.SheetNames[1] \notin DOMAIN file.Sheets
    \/ ~file.readOk

\* C9: a call of parseExcel settles exactly once; it rejects, and never
\* resolves, when the library is not found, the workbook has no sheets, the
\* first sheet is missing or the read fails; when it resolves, it resolves
\* with all rows of the first sheet, alias-normalized.
C9_SettlesOnce ==
    /\ parsePc \in {"call", "reading", "done"}
    /\ settleCalls <= 1
    /\ parsePc = "done" => settleCalls = 1 /\ promise.state # "pending"
    /\ parsePc \in {"call", "reading"} => promise.state = "pending" /\ ENABLED NextParse
    /\ parseFailure => promise.state # "fulfilled"
    /\ parsePc = "done" /\ parseFailure => promise.state = "rejected"
    /\ promise.state = "fulfilled" =>
          LET rows == file.Sheets[file.SheetNames[1]]
          IN /\ Len(promise.value) = Len(rows)
             /\ \A i \in DOMAIN rows : promise.value[i] = normalizeKeys(rows[i])

\* the library is found through the package's default export and the
\* workbook has no sheets: the one settlement is a rejection
C9_Witness ==
    /\ parsePc = "done"
    /\ file.readOk /\ ~file.corrupt
    /\ env = [window |-> "noUtils", pkg |-> "default"]
    /\ Len(file.SheetNames) = 0
    /\ promise = [state |-> "rejected",
                  value |-> "The uploaded file appears to be empty or invalid."]
    /\ settleCalls = 1

---------------------------------------------------------------------------
(* Claims about processData. *)

combined == combinedLMS(lms1, lms2)

\* the indices of the combined rows that step 3 files under key k
rowsOf(k) == {i \in DOMAIN combined : emailKeyOf(combined[i]) = k}

rateOf(i) == calculateRate(combined[i], lessonColumns)
dateOf(i) == resolveDate(Get(combined[i], "Date"))

processedKeys == {emailKeyOf(combined[i]) : i \in DOMAIN combined} \ {""}

\* C1: after processData, the completion rate stored for an identity key is
\* the maximum of the completion rates of the combined LMS rows with that key.
C1_StoredRateIsMax ==
    procPc = "done" =>
        \A k \in processedKeys :
            \E e \in DOMAIN lmsMap :
                /\ lmsMap[e].key = k
                /\ \E i \in rowsOf(k) : rateEq(lmsMap[e].rate, rateOf(i))
                /\ \A i \in rowsOf(k) : ~rateGt(rateOf(i), lmsMap[e].rate)

\* a later row with a strictly higher rate than an earlier row of its key
C1_Witness ==
    /\ procPc = "done"
    /\ \E k \in processedKeys : \E i, j \in rowsOf(k) :
          i < j /\ rateGt(rateOf(j), rateOf(i))
    /\ \E k \in processedKeys : \E i, j \in rowsOf(k) :
          i < j /\ rateGt(rateOf(i), rateOf(j))

\* row j beats row i in the order (rate, resolved date)
lexGreater(j, i) ==
    \/ rateGt(rateOf(j), rateOf(i))
    \/ rateEq(rateOf(j), rateOf(i)) /\ dateOf(j) > dateOf(i)

\* C2: the row kept for an identity key is the first row, in input order,
\* that attains the maximum of (rate, resolved date): it beats every earlier
\* row of the key and no later row of the key beats it. On equal rates a
\* later date replaces; on equal rates and equal resolved dates the
\* first-seen row stays.
C2_KeptRowIsFirstLexMax ==
    procPc = "done" =>
        \A e \in DOMAIN lmsMap :
            \E i \in rowsOf(lmsMap[e].key) :
                /\ lmsMap[e].row = combined[i]
                /\ \A j \in rowsOf(lmsMap[e].key) :
                      /\ j < i => lexGreater(i, j)
                      /\ j > i => ~lexGreater(j, i)

\* three rows of one key with equal rates: the second has a later date than
\* the first and is kept, the third has the date of the second and differs
C2_Witness ==
    /\ procPc = "done"
    /\ \E k \in processedKeys : \E i, j, l \in rowsOf(k) :
          /\ i < j /\ j < l
          /\ rateEq(rateOf(i), rateOf(j)) /\ rateEq(rateOf(j), rateOf(l))
          /\ dateOf(i) < dateOf(j) /\ dateOf(j) = dateOf(l)
          /\ combined[j] # combined[l]
          /\ \E e \in DOMAIN lmsMap : lmsMap[e].row = combined[j]

\* the normalized emails of the emitted rows
finalKeys == {cleanText(Str(finalRows[i]["Username (Email)"])) : i \in DOMAIN finalRows}

\* the normalized emails of the LMS rows, empty and "undefined" left out
normalizedLmsEmails ==
    {cleanText(Get(combined[i], "Username (Email)")) : i \in DOMAIN combined}
        \ {"", "undefined"}

\* the same, of the LMS rows whose email is a string
normalizedLmsStringEmails ==
    {cleanText(Get(combined[i], "Username (Email)")) :
        i \in {j \in DOMAIN combined : Get(combined[j], "Username (Email)").t = "string"}}
        \ {"", "undefined"}

\* C3 as stated: the report has exactly one row per distinct normalized
\* email of the LMS input, empty and "undefined" keys left out.
C3_OneRowPerLmsKey ==
    procPc = "done" =>
        /\ finalKeys = normalizedLmsEmails
        /\ Len(finalRows) = Cardinality(normalizedLmsEmails)

\* C3, amended: the report has exactly one row per distinct normalized email
\* of the LMS rows whose email is a string; rows whose email is not a string,
\* is empty or normalizes to "undefined" contribute no row, and a key that
\* only the master sheet holds produces no row.
C3_OneRowPerStringLmsKey ==
    procPc = "done" =>
        /\ finalKeys = normalizedLmsStringEmails
        /\ Len(finalRows) = Cardinality(normalizedLmsStringEmails)

\* an LMS row with a numeric email, one with an "undefined" email beside a
\* valid row, and a master row whose key no LMS row has
C3_Witness ==
    /\ procPc = "done"
    /\ \E i \in DOMAIN combined : Get(combined[i], "Username (Email)").t = "number"
    /\ \E i \in DOMAIN combined : cleanText(Get(combined[i], "Username (Email)")) = "undefined"
    /\ Len(finalRows) = 1
    /\ \E m \in DOMAIN master :
          cleanText(Get(master[m], "Username (Email)")) \notin normalizedLmsEmails

\* the master record of key k: the last master row indexed under k, <<>> if none
masterRecord(k) ==
    LET at == {m \in DOMAIN master :
                  /\ Truthy(Get(master[m], "Username (Email)"))
                  /\ cleanText(Get(master[m], "Username (Email)")) = k}
    IN IF at = {} THEN <<>>
       ELSE master[CHOOSE m \in at : \A n \in at : n <= m]

\* the value the precedence rule gives field f
precedence(masterRow, lmsRow, f) ==
    IF f \in DOMAIN masterRow /\ Truthy(masterRow[f]) THEN masterRow[f].v
    ELSE IF f \in DOMAIN lmsRow /\ Truthy(lmsRow[f]) THEN lmsRow[f].v
    ELSE ""

\* C4: every field of an emitted row other than Completion Rate is the master
\* record's value when a master record of the key exists and the value is
\* non-empty (truthy), otherwise the winning LMS row's value, otherwise "".
C4_MergePrecedence ==
    procPc = "done" =>
        /\ Len(finalRows) = Len(lmsMap)
        /\ \A i \in DOMAIN finalRows : \A f \in OutputFields :
              finalRows[i][f] =
                  precedence(masterRecord(lmsMap[i].key), lmsMap[i].row, f)

\* an emitted row whose key two different master rows have, which takes one
\* field from the later of them and another, empty there, from its LMS row
C4_Witness ==
    /\ procPc = "done"
    /\ \E i \in DOMAIN finalRows :
          LET m == masterRecord(lmsMap[i].key)
          IN /\ m # <<>>
             /\ Len(master) = 2 /\ master[1] # master[2]
             /\ cleanText(Get(master[1], "Username (Email)")) = lmsMap[i].key
             /\ \E f \in OutputFields : Truthy(Get(m, f))
             /\ \E f \in OutputFields :
                   ~Truthy(Get(m, f)) /\ Truthy(Get(lmsMap[i].row, f))
             /\ \E f \in OutputFields :
                   ~Truthy(Get(m, f)) /\ ~Truthy(Get(lmsMap[i].row, f))

\* the columns that hold one of the three status phrases in some LMS row
statusColumns ==
    {c \in UNION {DOMAIN combined[i] : i \in DOMAIN combined} :
        \E i \in DOMAIN combined :
            cleanText(Get(combined[i], c)) \in
                {"completed", "completed (achieved pass grade)", "not completed"}}

completedIn(row) ==
    {c \in statusColumns :
        cleanText(Get(row, c)) \in {"completed", "completed (achieved pass grade)"}}

\* C5: the Completion Rate of an emitted row is the number of lesson columns
\* completed in the winning LMS row divided by the number of lesson columns
\* inferred from the batch, 0 when there is none, and lies in [0, 1].
C5_CompletionRate ==
    procPc = "done" =>
        /\ Len(finalRows) = Len(lmsMap)
        /\ \A i \in DOMAIN finalRows :
              LET rate == finalRows[i]["Completion Rate"]
              IN /\ rate.den > 0 /\ 0 <= rate.num /\ rate.num <= rate.den
                 /\ IF statusColumns = {} THEN rate.num = 0
                    ELSE rate.num * Cardinality(statusColumns)
                            = Cardinality(completedIn(lmsMap[i].row)) * rate.den

\* an emitted row with rate 1/2 whose master record carries its own rate
C5_Witness ==
    /\ procPc = "done"
    /\ \E i \in DOMAIN finalRows :
          /\ finalRows[i]["Completion Rate"] = [num |-> 1, den |-> 2]
          /\ "Completion Rate" \in DOMAIN masterRecord(lmsMap[i].key)

\* C10: every emitted row has a non-empty email whose normalized form is the
\* key it was deduplicated under, no two emitted rows share a normalized
\* email, and every key of lmsMap is emitted.
C10_EmailIsKey ==
    procPc = "done" =>
        /\ Len(finalRows) = Len(lmsMap)
        /\ \A i \in DOMAIN finalRows :
              /\ finalRows[i]["Username (Email)"] # ""
              /\ cleanText(Str(finalRows[i]["Username (Email)"])) = lmsMap[i].key
        /\ \A i, j \in DOMAIN finalRows :
              i # j => cleanText(Str(finalRows[i]["Username (Email)"]))
                          # cleanText(Str(finalRows[j]["Username (Email)"]))

\* two emitted rows, one taking its email from a master record spelled
\* differently from the LMS email, with neither an id nor a display name
C10_Witness ==
    /\ procPc = "done"
    /\ Len(finalRows) = 2
    /\ \E i \in DOMAIN finalRows :
          /\ masterRecord(lmsMap[i].key) # <<>>
          /\ finalRows[i]["Username (Email)"] # Get(lmsMap[i].row, "Username (Email)").v
          /\ finalRows[i]["User/Employee ID"] = ""
          /\ finalRows[i]["Display Name (Pharmacist name)"] = ""

=============================================================================
